---- MODULE Spec2Model ----
(***************************************************************************)
(* The War card game of the Digital Card Deck System: game/War.py on top   *)
(* of game/lib/game.py (Game, Hand), game/lib/deck.py (Card, CardDeck) and *)
(* game/lib/rfid_info.py (get_card), driven by test.py (init, then start). *)
(*                                                                         *)
(* The standard deck (4 suits x 13 values, 52 cards) is scaled down: the   *)
(* deck of Spec has one suit per colour and the NumValues highest values.  *)
(* The literal 52 of War.start is the size of the standard deck, and is    *)
(* scaled with the deck (DeckSize).                                        *)
(***************************************************************************)
EXTENDS Integers, Sequences, FiniteSets, TLC

VARIABLES
    pc,          \* position of the single thread of control
    deck,        \* self.deck.cards
    hands,       \* self.hands: player -> Hand (a dict, empty after __init__)
    curr_round,  \* curr_round of War.start: a list of one-entry dicts
    winner,      \* the value check_winner returned for the round
    player_hw,   \* the identifier last read by get_player_info
    announced    \* the player War.start announced as the winner

vars == <<pc, deck, hands, curr_round, winner, player_hw, announced>>

----------------------------------------------------------------------------
(* Bounds *)

NumValues == 2   \* values per suit in the scaled deck
NumIds == 3      \* distinct identifiers the reader can return

----------------------------------------------------------------------------
(* Python values *)

NoneId == 0               \* id_card = None: no identifier read
NoPlayer == -2            \* winner = None / nobody announced
Ids == 1..NumIds
Players == {0, 1}         \* range(self.players), players = 2
req_hw == 2               \* super().__init__("War", 2)

\* the count create_hands passes to register: req_hw // players
required == req_hw \div Cardinality(Players)

\* Python's `not x` on a turn flag: not None = True
PyNot(t) == IF t = "True" THEN "False" ELSE "True"

\* The value_list of the standard deck, as strings
ValueList == <<"2", "3", "4", "5", "6", "7", "8", "9", "10", "J", "Q", "K", "A">>

\* The code points of a value string (str comparison is by code point)
Chars(v) ==
    CASE v = "2" -> <<50>> [] v = "3" -> <<51>> [] v = "4" -> <<52>>
      [] v = "5" -> <<53>> [] v = "6" -> <<54>> [] v = "7" -> <<55>>
      [] v = "8" -> <<56>> [] v = "9" -> <<57>> [] v = "10" -> <<49, 48>>
      [] v = "J" -> <<74>> [] v = "Q" -> <<81>> [] v = "K" -> <<75>>
      [] v = "A" -> <<65>> [] v = "X" -> <<88>> [] v = "Z" -> <<90>>

\* Python str `a > b`: lexicographic on code points, a proper prefix is less
StrGreater(a, b) ==
    LET ca == Chars(a)
        cb == Chars(b)
        Common(i) == \A j \in 1..(i - 1) : ca[j] = cb[j]
    IN  \/ \E i \in 1..Len(ca) : i <= Len(cb) /\ Common(i) /\ ca[i] > cb[i]
        \/ Len(ca) > Len(cb) /\ Common(Len(cb) + 1)

----------------------------------------------------------------------------
(* deck.py *)

Card(value, suit, color) == [value |-> value, suit |-> suit, color |-> color]

\* suits of the scaled deck: [{Red: [Hearts]}, {Black: [Spades]}]
SuitList == << <<"Red", "Hearts">>, <<"Black", "Spades">> >>

\* the NumValues highest values of the value_list
DeckValues == SubSeq(ValueList, Len(ValueList) - NumValues + 1, Len(ValueList))

\* CardDeck.__create_deck: for each colour, suit, value in order
CreateDeck ==
    [i \in 1..(Len(SuitList) * NumValues) |->
        LET s == SuitList[((i - 1) \div NumValues) + 1]
            v == DeckValues[((i - 1) % NumValues) + 1]
        IN  Card(v, s[2], s[1])]

\* CardDeck.shuffle: random.shuffle yields any permutation of the list
Shuffles(cards) ==
    LET n == Len(cards)
        Bij == {f \in [1..n -> 1..n] : \A i, j \in 1..n : f[i] = f[j] => i = j}
    IN  {[i \in 1..n |-> cards[f[i]]] : f \in Bij}

----------------------------------------------------------------------------
(* game.py *)

\* Hand.__init__
Hand(cards) == [active |-> cards, dead |-> <<>>, rfids |-> <<>>, turn |-> "None"]

InList(x, s) == \E i \in DOMAIN s : s[i] = x

\* get_player returning player 0 where it should raise
get_player_Default(hw) ==
    IF \E p \in Players : InList(hw, hands[p].rfids)
    THEN CHOOSE p \in Players :
            /\ InList(hw, hands[p].rfids)
            /\ \A q \in Players : InList(hw, hands[q].rfids) => p <= q
    ELSE 0

\* Game.get_player: the first player whose rfids hold the identifier;
\* NoPlayer stands for the raised GameFailure
get_player(hw) ==
    IF \E p \in Players : InList(hw, hands[p].rfids)
    THEN CHOOSE p \in Players :
            /\ InList(hw, hands[p].rfids)
            /\ \A q \in Players : InList(hw, hands[q].rfids) => p <= q
    ELSE NoPlayer

\* is_turn with `is not False` in place of `is True`
is_turn_NotFalse(hw) == hands[get_player(hw)].turn # "False"

\* Game.is_turn, for an identifier get_player resolves
is_turn(hw) == hands[get_player(hw)].turn = "True"

----------------------------------------------------------------------------
(* War.py *)

\* the while condition of War.start compares with 52, the size of the deck
DeckSize == Len(deck)

\* switch_turns looping over range(1) only
switch_turns_FirstOnly(h) == [h EXCEPT ![0].turn = PyNot(@)]

\* switch_turns that switches nothing
switch_turns_Skip(h) == h

\* War.switch_turns
switch_turns(h) == [p \in DOMAIN h |-> [h[p] EXCEPT !.turn = PyNot(h[p].turn)]]

translate_A_K(v) == IF v = "A" THEN "Z" ELSE IF v = "K" THEN "X" ELSE v

\* check_winner comparing with >= in its first test
check_winner_GreaterEq(current_round) ==
    LET card_value1 == translate_A_K(current_round[1][0].value)
        card_value2 == translate_A_K(current_round[2][1].value)
        LastKey(d) == CHOOSE k \in DOMAIN d : \A j \in DOMAIN d : j <= k
    IN  IF ~StrGreater(card_value2, card_value1) THEN LastKey(current_round[1])
        ELSE LastKey(current_round[2])

\* War.check_winner: -1 for a tie, else the last key of the winning dict
check_winner(current_round) ==
    LET card_value1 == translate_A_K(current_round[1][0].value)
        card_value2 == translate_A_K(current_round[2][1].value)
        LastKey(d) == CHOOSE k \in DOMAIN d : \A j \in DOMAIN d : j <= k
    IN  IF StrGreater(card_value1, card_value2) THEN LastKey(current_round[1])
        ELSE IF StrGreater(card_value2, card_value1) THEN LastKey(current_round[2])
        ELSE -1

\* distribute whose winner collects the first card twice
distribute_Extra(h, w, current_round) ==
    LET c0 == current_round[1][0]
        c1 == current_round[2][1]
        h1 == IF w # -1
              THEN [h EXCEPT ![w].dead = Append(Append(Append(@, c0), c1), c0)]
              ELSE h
    IN  [h1 EXCEPT ![0].active = Append(@, c0), ![1].active = Append(@, c1)]

\* distribute handing the cards to the hand that lost the round
distribute_Loser(h, w, current_round) ==
    LET c0 == current_round[1][0]
        c1 == current_round[2][1]
        h1 == IF w # -1
              THEN [h EXCEPT ![1 - w].dead = Append(Append(@, c0), c1)]
              ELSE h
    IN  [h1 EXCEPT ![0].active = Append(@, c0), ![1].active = Append(@, c1)]

\* distribute collecting the cards of a tied round for player 0
distribute_TieCollect(h, w, current_round) ==
    LET c0 == current_round[1][0]
        c1 == current_round[2][1]
        h1 == [h EXCEPT ![IF w # -1 THEN w ELSE 0].dead = Append(Append(@, c0), c1)]
    IN  [h1 EXCEPT ![0].active = Append(@, c0), ![1].active = Append(@, c1)]

\* distribute putting the cards back with insert(0, card)
distribute_Front(h, w, current_round) ==
    LET c0 == current_round[1][0]
        c1 == current_round[2][1]
        h1 == IF w # -1
              THEN [h EXCEPT ![w].dead = Append(Append(@, c0), c1)]
              ELSE h
    IN  [h1 EXCEPT ![0].active = <<c0>> \o @, ![1].active = <<c1>> \o @]

\* distribute returning each card to the other player's queue
distribute_Crossed(h, w, current_round) ==
    LET c0 == current_round[1][0]
        c1 == current_round[2][1]
        h1 == IF w # -1
              THEN [h EXCEPT ![w].dead = Append(Append(@, c0), c1)]
              ELSE h
    IN  [h1 EXCEPT ![0].active = Append(@, c1), ![1].active = Append(@, c0)]

\* War.distribute
distribute(h, w, current_round) ==
    LET c0 == current_round[1][0]
        c1 == current_round[2][1]
        h1 == IF w # -1
              THEN [h EXCEPT ![w].dead = Append(Append(@, c0), c1)]
              ELSE h
    IN  [h1 EXCEPT ![0].active = Append(@, c0), ![1].active = Append(@, c1)]

----------------------------------------------------------------------------
(* Initial states *)

\* after War(): the deck is built, no hands
Init ==
    /\ pc = "create_hands"
    /\ deck = CreateDeck
    /\ hands = [p \in {} |-> Hand(<<>>)]
    /\ curr_round = <<>>
    /\ winner = NoPlayer
    /\ player_hw = NoneId
    /\ announced = NoPlayer

----------------------------------------------------------------------------
(* Actions *)

\* War.create_hands, lines 107-114: shuffle; the halves are slices of deck
create_hands_shuffle ==
    /\ pc = "create_hands"
    /\ deck' \in Shuffles(deck)
    /\ pc' = "register"
    /\ UNCHANGED <<hands, curr_round, winner, player_hw, announced>>

deck_half == Len(deck) \div Cardinality(Players)

\* the second slice starting one card early
deck_halves_Overlap == [p \in Players |->
                  IF p = 0 THEN SubSeq(deck, 1, deck_half)
                           ELSE SubSeq(deck, deck_half, Len(deck))]

deck_halves == [p \in Players |->
                  IF p = 0 THEN SubSeq(deck, 1, deck_half)
                           ELSE SubSeq(deck, deck_half + 1, Len(deck))]

\* the player of the current iteration of the for loop of create_hands
reg_player == Cardinality(DOMAIN hands)

\* hands[player] = Hand(...) in the dict
SetHand(h, p, hand) == [q \in DOMAIN h \cup {p} |-> IF q = p THEN hand ELSE h[q]]

\* one iteration of the for loop of create_hands; register(1) reads one
\* identifier; after the last player, hands[0].turn = True and init returns
create_hands_register(id) ==
    /\ pc = "register"
    /\ LET p == reg_player
           h == SetHand(hands, p, [Hand(deck_halves[p]) EXCEPT !.rfids = <<id>>])
       IN  IF p = 1
           THEN /\ hands' = [h EXCEPT ![0].turn = "True"]
                /\ pc' = "start"
           ELSE /\ hands' = h
                /\ pc' = "register"
    /\ UNCHANGED <<deck, curr_round, winner, player_hw, announced>>

\* the reader raises in register: register swallows it, rfids stays empty,
\* rfids[-1] raises IndexError, create_hands aborts and init swallows that
create_hands_register_fail ==
    /\ pc = "register"
    /\ hands' = SetHand(hands, reg_player, Hand(deck_halves[reg_player]))
    /\ pc' = "start"
    /\ UNCHANGED <<deck, curr_round, winner, player_hw, announced>>

\* War.start: the while condition, and the announcement once it is false;
\* a missing hand is a KeyError
start_while ==
    /\ pc = "start"
    /\ IF DOMAIN hands # Players
       THEN pc' = "crashed" /\ UNCHANGED <<curr_round, announced>>
       ELSE IF Len(hands[0].dead) < DeckSize /\ Len(hands[1].dead) < DeckSize
       THEN pc' = "get_player_info" /\ curr_round' = <<>> /\ UNCHANGED announced
       ELSE /\ pc' = "done"
            /\ announced' = IF Len(hands[0].dead) >= DeckSize THEN 0 ELSE 1
            /\ UNCHANGED curr_round
    /\ UNCHANGED <<deck, hands, winner, player_hw>>

\* get_player_info: one iteration of the wait loop with the identifier read,
\* and on an accepted identifier the rest of the method
get_player_info(id) ==
    /\ pc = "get_player_info"
    /\ player_hw' = id
    /\ IF get_player(id) = NoPlayer
       THEN pc' = "crashed" /\ UNCHANGED <<hands, curr_round>>
       ELSE IF ~is_turn(id)
       THEN UNCHANGED <<pc, hands, curr_round>>
       ELSE LET player_id == get_player(id)
            IN  IF hands[player_id].active = <<>>
                THEN pc' = "crashed" /\ UNCHANGED <<hands, curr_round>>
                ELSE /\ curr_round' = Append(curr_round,
                            [k \in {player_id} |-> Head(hands[player_id].active)])
                     /\ hands' = switch_turns(
                            [hands EXCEPT ![player_id].active = Tail(@)])
                     /\ pc' = IF Len(curr_round') = Cardinality(Players)
                              THEN "check_winner" ELSE "get_player_info"
    /\ UNCHANGED <<deck, winner, announced>>

\* the reader raises in get_hw: nothing catches it
get_player_info_fail ==
    /\ pc = "get_player_info"
    /\ pc' = "crashed"
    /\ UNCHANGED <<deck, hands, curr_round, winner, player_hw, announced>>

\* winner = self.check_winner(curr_round); a missing key is a KeyError
start_check_winner ==
    /\ pc = "check_winner"
    /\ IF 0 \in DOMAIN curr_round[1] /\ 1 \in DOMAIN curr_round[2]
       THEN winner' = check_winner(curr_round) /\ pc' = "distribute"
       ELSE pc' = "crashed" /\ UNCHANGED winner
    /\ UNCHANGED <<deck, hands, curr_round, player_hw, announced>>

\* self.distribute(winner, curr_round), then back to the while condition
start_distribute ==
    /\ pc = "distribute"
    /\ hands' = distribute(hands, winner, curr_round)
    /\ pc' = "start"
    /\ UNCHANGED <<deck, curr_round, winner, player_hw, announced>>

Next ==
    \/ create_hands_shuffle
    \/ \E id \in Ids : create_hands_register(id)
    \/ create_hands_register_fail
    \/ start_while
    \/ \E id \in Ids : get_player_info(id)
    \/ get_player_info_fail
    \/ start_check_winner
    \/ start_distribute

Spec == Init /\ [][Next]_vars


----------------------------------------------------------------------------
(* A second family of initial states: two-card decks over every pair of    *)
(* values, so that one round compares any value with any value             *)

InitRank ==
    /\ pc = "create_hands"
    /\ \E v1, v2 \in {ValueList[i] : i \in DOMAIN ValueList} :
          deck = <<Card(v1, "Hearts", "Red"), Card(v2, "Spades", "Black")>>
    /\ hands = [p \in {} |-> Hand(<<>>)]
    /\ curr_round = <<>>
    /\ winner = NoPlayer
    /\ player_hw = NoneId
    /\ announced = NoPlayer

SpecRank == InitRank /\ [][Next]_vars

\* an identifier read by get_player_info that is accepted as a play
AcceptedPlay == \E id \in Ids : get_player_info(id) /\ curr_round' # curr_round

\* the loop of start runs on, and a player whose turn it is eventually
\* presents an identifier that is accepted
FairSpec ==
    /\ Spec
    /\ WF_vars(start_while)
    /\ WF_vars(start_check_winner)
    /\ WF_vars(start_distribute)
    /\ SF_vars(AcceptedPlay)

----------------------------------------------------------------------------
(* Helpers of the properties *)

Range(s) == {s[i] : i \in DOMAIN s}
Count(c, s) == Cardinality({i \in DOMAIN s : s[i] = c})
Other(p) == 1 - p

\* create_hands ran to its end: both hands exist with a bound identifier
DealCompleted ==
    /\ pc \notin {"create_hands", "register"}
    /\ DOMAIN hands = Players
    /\ \A p \in Players : hands[p].rfids # <<>>

\* the while condition of start is about to be evaluated: a round boundary
RoundBoundary == pc = "start" /\ DealCompleted

\* init has returned and no round has been played
JustDealt == RoundBoundary /\ winner = NoPlayer

NoSharedId ==
    \A i \in Ids : ~(InList(i, hands[0].rfids) /\ InList(i, hands[1].rfids))

\* the position of a value in the rank order 2 < 3 < ... < 10 < J < Q < K < A
Rank(v) == CHOOSE i \in DOMAIN ValueList : ValueList[i] = v

----------------------------------------------------------------------------
(* Properties *)

\* C1: after the deal has completed, exactly one of the two hands has its
\* turn flag equal to True, whatever plays were accepted or rejected and
\* whatever rounds were resolved.
C1_ExactlyOneTurn ==
    DealCompleted =>
        Cardinality({p \in Players : hands[p].turn = "True"}) = 1

\* a round was won, a play of player 0 was accepted, and it is player 1's turn
C1_Witness ==
    /\ DealCompleted
    /\ pc = "get_player_info"
    /\ Len(curr_round) = 1
    /\ hands[0].turn = "False" /\ hands[1].turn = "True"
    /\ Len(hands[0].dead) + Len(hands[1].dead) > 0

\* C2: accepted plays alternate 0,1,0,1,...: the i-th play of every round is
\* player i's, the hand whose turn it is while the loop waits is the one at
\* the next position of the round, and check_winner and distribute find
\* current_round[0][0] and current_round[1][1].
C2_PlaysAlternate ==
    DealCompleted =>
        /\ \A i \in DOMAIN curr_round : DOMAIN curr_round[i] = {i - 1}
        /\ pc = "get_player_info" =>
              /\ Len(curr_round) < Cardinality(Players)
              /\ hands[Len(curr_round)].turn = "True"
        /\ pc \in {"check_winner", "distribute"} =>
              /\ Len(curr_round) = Cardinality(Players)
              /\ 0 \in DOMAIN curr_round[1]
              /\ 1 \in DOMAIN curr_round[2]

\* the second round of a game is complete and about to be resolved
C2_Witness ==
    /\ DealCompleted
    /\ pc = "check_winner"
    /\ winner # NoPlayer
    /\ DOMAIN curr_round[1] = {0} /\ DOMAIN curr_round[2] = {1}

\* C3: presenting an identifier that get_player resolves to a hand whose
\* turn flag is not True is rejected without an error: the loop keeps
\* waiting and no queue, pile, turn flag or round entry changes.
C3_RejectedPlay ==
    [][\A id \in Ids :
        (/\ get_player_info(id)
         /\ get_player(id) \in Players
         /\ hands[get_player(id)].turn # "True")
        => /\ pc' = "get_player_info"
           /\ UNCHANGED <<hands, curr_round, deck, winner, announced>>]_vars

\* the first play of a game was attempted with the identifier of a hand
\* whose turn it is not, and the loop is still waiting for the first play
C3_Witness ==
    /\ DealCompleted
    /\ pc = "get_player_info"
    /\ winner = NoPlayer /\ curr_round = <<>>
    /\ player_hw # NoneId
    /\ get_player(player_hw) = 1
    /\ hands[1].turn # "True"
    /\ hands[0].active = deck_halves[0] /\ hands[1].active = deck_halves[1]

\* C4: at every round boundary each hand has |active| + |dead| equal to the
\* deck size divided by the player count.
C4_HandSizeConstant ==
    RoundBoundary =>
        \A p \in Players :
            Len(hands[p].active) + Len(hands[p].dead) = DeckSize \div Cardinality(Players)

\* C5: at every round boundary each card of the deck occurs exactly once
\* among the active queues and the dead piles of the two hands.
C5_CardInOnePlace ==
    RoundBoundary =>
        \A c \in Range(deck) :
            Count(c, hands[0].active) + Count(c, hands[0].dead)
              + Count(c, hands[1].active) + Count(c, hands[1].dead) = 1

\* C6: as long as nothing raises, a game dealt with no identifier bound to
\* both hands, whose players eventually present an accepted identifier,
\* ends with one dead pile at the deck size.
C6_Terminates ==
    [](pc # "crashed") =>
        ((RoundBoundary /\ NoSharedId) ~>
            (pc = "done" /\ \E p \in Players : Len(hands[p].dead) = DeckSize))

\* C7: when the loop of start has exited, exactly one hand has a dead pile
\* of exactly the deck size, the other pile is shorter, and the announced
\* winner is the hand with the full pile.
C7_LoopExit ==
    pc = "done" =>
        \E p \in Players :
            /\ Len(hands[p].dead) = DeckSize
            /\ Len(hands[Other(p)].dead) < DeckSize
            /\ announced = p

\* the game ended with player 1 announced after player 0 won a round too
C7_Witness ==
    /\ pc = "done"
    /\ announced = 1
    /\ Len(hands[0].dead) > 0

\* C8: when the game has ended, the dead pile of the announced winner holds
\* every card of the deck.
C8_WinnerHasAllCards ==
    pc = "done" => \A c \in Range(deck) : InList(c, hands[announced].dead)

\* C9: right after the deal hand 0 holds the first half of the shuffled deck
\* and hand 1 the rest, the two queues together have the deck's size, share
\* no card, and hold the cards of the deck as built, which the shuffle only
\* permuted.
C9_Deal ==
    JustDealt =>
        /\ hands[0].active = SubSeq(deck, 1, Len(deck) \div 2)
        /\ hands[1].active = SubSeq(deck, Len(deck) \div 2 + 1, Len(deck))
        /\ Len(hands[0].active) + Len(hands[1].active) = Len(deck)
        /\ Range(hands[0].active) \cap Range(hands[1].active) = {}
        /\ Range(hands[0].active) \cup Range(hands[1].active) = Range(CreateDeck)
        /\ Len(deck) = Len(CreateDeck)
        /\ \A c \in Range(CreateDeck) : Count(c, deck) = 1

\* the deal followed a shuffle that moved the last card of the deck to the top
C9_Witness ==
    /\ JustDealt
    /\ deck # CreateDeck
    /\ hands[0].active[1] = CreateDeck[Len(CreateDeck)]

\* C10: the round winner check_winner returns is the player of the card of
\* strictly higher rank in 2 < 3 < ... < 10 < J < Q < K < A.
C10_RankOrder ==
    pc = "distribute" =>
        LET r0 == Rank(curr_round[1][0].value)
            r1 == Rank(curr_round[2][1].value)
        IN  /\ r0 > r1 => winner = 0
            /\ r1 > r0 => winner = 1

\* the round with the two played cards exchanged between the players
SwappedRound(r) == <<[k \in {0} |-> r[2][1]], [k \in {1} |-> r[1][0]]>>

\* C11: round resolution is symmetric: if the round (a, b) has winner 0
\* (winner 1, a tie), the round (b, a) has winner 1 (winner 0, a tie).
C11_Symmetric ==
    pc = "distribute" =>
        LET sw == check_winner(SwappedRound(curr_round))
        IN  /\ winner \in {-1, 0, 1}
            /\ winner = 0 => sw = 1
            /\ winner = 1 => sw = 0
            /\ winner = -1 => sw = -1

\* a round of King against 5 was resolved for player 0
C11_Witness ==
    /\ pc = "distribute"
    /\ curr_round[1][0].value = "K" /\ curr_round[2][1].value = "5"
    /\ winner = 0

Bound(id) == \E p \in Players : InList(id, hands[p].rfids)

\* C14: for an identifier read in the play loop, get_player returns the
\* index of a hand that holds the identifier (the only one when a single
\* hand holds it); for an identifier no hand holds it raises at once, and
\* no hand, round entry or result changes.
C14_GetPlayer ==
    [][\A id \in Ids : get_player_info(id) =>
        /\ Bound(id) =>
              /\ get_player(id) \in Players
              /\ InList(id, hands[get_player(id)].rfids)
              /\ \A p \in Players :
                    (InList(id, hands[p].rfids)
                        /\ ~InList(id, hands[Other(p)].rfids)) => get_player(id) = p
        /\ ~Bound(id) =>
              /\ get_player(id) \notin Players
              /\ pc' = "crashed"
              /\ UNCHANGED <<hands, curr_round, deck, winner, announced>>]_vars

\* after a complete deal and a won round, an identifier held by no hand
\* was read and the error left the loop
C14_Witness ==
    /\ DealCompleted
    /\ pc = "crashed"
    /\ player_hw # NoneId
    /\ ~Bound(player_hw)
    /\ Len(hands[0].dead) + Len(hands[1].dead) > 0

\* C15: an identifier held by no hand, read in the play loop, is recovered
\* from: the loop asks again and the state of the game is unchanged.
C15_Recoverable ==
    [][\A id \in Ids : (get_player_info(id) /\ ~Bound(id)) =>
        /\ pc' = "get_player_info"
        /\ UNCHANGED <<hands, curr_round, deck, winner, announced>>]_vars

\* C16: once register has returned for a hand, the hand holds at least the
\* required number of identifiers.
C16_RegisterComplete ==
    \A p \in DOMAIN hands : Len(hands[p].rfids) >= required

\* C17: once init has returned, both hands exist, each holds the required
\* identifiers, exactly one turn flag is True, and before the first round
\* each hand holds its half of the deck.
C17_Playable ==
    pc \notin {"create_hands", "register"} =>
        /\ DOMAIN hands = Players
        /\ \A p \in Players : Len(hands[p].rfids) >= required
        /\ Cardinality({p \in Players : hands[p].turn = "True"}) = 1
        /\ (pc = "start" /\ winner = NoPlayer) =>
              \A p \in Players : hands[p].active = deck_halves[p]

\* a round has been distributed and the next has not begun
RoundDistributed == RoundBoundary /\ winner # NoPlayer

Rot(s, r) == [i \in 1..Len(s) |-> s[((i - 1 + r) % Len(s)) + 1]]

C20_NoSharedId == DealCompleted => NoSharedId
====
